---- MODULE Spec2Model ----
(***************************************************************************)
(* Model of @superbuilders/errors (src/src/index.ts): error construction,  *)
(* wrapping with a cause link, and the chain traversals cause / is / as /  *)
(* toString.  Error objects live in a heap indexed by their identity; a    *)
(* JavaScript value is a tagged record, so reference identity (===) is     *)
(* equality of the tagged record.                                          *)
(***************************************************************************)
EXTENDS Integers, Sequences, FiniteSets, TLC

VARIABLES heap, last, promises, calls

vars == <<heap, last, promises, calls>>

\* ---------------------------------------------------------------- bounds
MaxHeap == 3
MaxNative == 1
\* Bounds of the tryCatch / trySync specification.
MaxTryHeap == 2
MaxPromises == 1
MaxCalls == 1
\* Bounds of the specification of concurrent tryCatch calls.
MaxInFlight == 2
MaxAsyncHeap == 3
\* Bounds of the specification of cyclic chains: errors in the heap and
\* iterations a loop is followed for.
MaxWalkHeap == 2
MaxSteps == 5

\* Messages callers pass to newError / wrap / new Error.
Msgs == {"", "a"}

\* Error classes of the callers: the built-in Error and a custom subclass.
Classes == {"Error", "CustomErrorOne"}

\* A non-Error value a caller stores in a cause field.
BadCause == "not an error object"

\* ---------------------------------------------------------------- values
Undefined == [tag |-> "undefined", id |-> 0, str |-> ""]
Null == [tag |-> "null", id |-> 0, str |-> ""]
Ref(i) == [tag |-> "ref", id |-> i, str |-> ""]
Str(s) == [tag |-> "string", id |-> 0, str |-> s]
Bool(b) == [tag |-> "boolean", id |-> IF b THEN 1 ELSE 0, str |-> ""]
Fn(f) == [tag |-> "function", id |-> 0, str |-> f]
Num(n) == [tag |-> "number", id |-> n, str |-> ""]
\* A plain object {} and an object without prototype, Object.create(null).
PlainObject == [tag |-> "object", id |-> 0, str |-> "Object.prototype"]
BareObject == [tag |-> "object", id |-> 0, str |-> "null"]
\* The TypeError the runtime throws when a value has no string form.
TypeErrorValue ==
    [tag |-> "TypeError", id |-> 0, str |-> "Cannot convert object to primitive value"]

Refs(h) == {Ref(i) : i \in DOMAIN h}

\* Property reads on an arbitrary value: a primitive has no cause / message.
GetCause(h, v) == IF v.tag = "ref" THEN h[v.id].cause ELSE Undefined
GetMessage(h, v) == IF v.tag = "ref" THEN h[v.id].message ELSE ""

\* A looser test that accepts any non-nullish value.
InstanceOfErrorLoose(h, v) == v.tag \notin {"undefined", "null"}

\* v instanceof Error: every heap object is an Error (or a subclass) instance.
InstanceOfError(h, v) == v.tag = "ref"

\* v instanceof K for an error class K.
InstanceOf(h, v, K) == v.tag = "ref" /\ (K = "Error" \/ h[v.id].class = K)

\* ---------------------------------------------------------------- strings
RECURSIVE Join(_, _)
Join(seq, sep) ==
    IF seq = <<>> THEN ""
    ELSE IF Len(seq) = 1 THEN seq[1]
    ELSE seq[1] \o sep \o Join(Tail(seq), sep)

\* ---------------------------------------------------------------- toString
RECURSIVE ChainMessages(_, _)
RECURSIVE ChainMessagesReversed(_, _)
\* The messages collected inner-to-outer.
ChainMessagesReversed(h, cur) ==
    IF cur.tag \in {"undefined", "null"} THEN <<>>
    ELSE IF InstanceOfError(h, GetCause(h, cur))
         THEN ChainMessagesReversed(h, GetCause(h, cur)) \o <<GetMessage(h, cur)>>
         ELSE <<GetMessage(h, cur)>>

\* The loop of createErrorChainToString: the messages pushed, in push order.
ChainMessages(h, cur) ==
    IF cur.tag \in {"undefined", "null"} THEN <<>>
    ELSE IF InstanceOfError(h, GetCause(h, cur))
         THEN <<GetMessage(h, cur)>> \o ChainMessages(h, GetCause(h, cur))
         ELSE <<GetMessage(h, cur)>>

\* A rendering that delegates to the cause's own toString().
RECURSIVE createErrorChainToStringViaCause(_, _)
createErrorChainToStringViaCause(h, this) ==
    LET c == GetCause(h, this)
    IN IF InstanceOfError(h, c)
       THEN GetMessage(h, this) \o ": " \o
            (IF h[c.id].toStr = "chain"
             THEN createErrorChainToStringViaCause(h, c)
             ELSE (IF h[c.id].message = "" THEN h[c.id].name
                   ELSE h[c.id].name \o ": " \o h[c.id].message))
       ELSE GetMessage(h, this)

\* A rendering that also prints the terminal node's missing cause.
createErrorChainToStringShowCause(h, this) ==
    Join(ChainMessages(h, this) \o <<"undefined">>, ": ")

createErrorChainToString(h, this) == Join(ChainMessages(h, this), ": ")

\* The runtime's Error.prototype.toString, kept by errors the library did not
\* create: "<name>: <message>", or the non-empty one of the two.
DefaultToString(h, this) ==
    LET n == h[this.id].name
        m == h[this.id].message
    IN IF n = "" THEN m ELSE IF m = "" THEN n ELSE n \o ": " \o m

\* e.toString(): the own property installed by newError / wrap, else the default.
toString(h, e) ==
    IF h[e.id].toStr = "chain"
    THEN createErrorChainToString(h, e)
    ELSE DefaultToString(h, e)

\* ---------------------------------------------------------------- construction
\* The own enumerable properties a class's constructor leaves on its instance:
\* CustomErrorOne declares the field `one` and assigns this.name.
NoProps == [k \in {} |-> Undefined]
ClassProps(K) ==
    IF K = "CustomErrorOne"
    THEN [one |-> Str("propertyOne"), name |-> Str(K)]
    ELSE NoProps

\* new K(message, {cause}) as the runtime builds it; origin records who made it.
\* message, stack and a cause given to the constructor are not enumerable; the
\* object is extensible and not frozen.
ErrorObject(m, c, K, who) ==
    [message |-> m, cause |-> c, class |-> K, name |-> K,
     toStr |-> "default", origin |-> who,
     stack |-> "at construction", frozen |-> FALSE, own |-> ClassProps(K),
     captured |-> <<>>]

\* Error.captureStackTrace(e, fn): rewrites e.stack to start at fn's caller.
\* The field `captured` records the calls made with e, as a spy would.
captureStackTrace(e, fn) ==
    [e EXCEPT !.stack = "at caller of " \o fn,
              !.captured = Append(e.captured, fn)]

\* An installation that calls Error.captureStackTrace without testing for it.
InstallUnguarded(has, e, fn) ==
    [captureStackTrace(e, fn)
        EXCEPT !.toStr = "chain",
               !.own = [toString |-> Fn("createErrorChainToString"),
                        toJSON |-> Fn("createErrorToJSON")] @@ e.own]

\* The three statements newError and wrap share after `new Error(...)`:
\* captureStackTrace(e, fn); e.toString = ...; e.toJSON = ..., on a runtime
\* that has Error.captureStackTrace (has = TRUE) or lacks it:
\* `if (Error.captureStackTrace) { ... }`.
InstallOn(has, e, fn) ==
    [(IF has THEN captureStackTrace(e, fn) ELSE e)
        EXCEPT !.toStr = "chain",
               !.own = [toString |-> Fn("createErrorChainToString"),
                        toJSON |-> Fn("createErrorToJSON")] @@ e.own]

\* The same on the runtime of the test suite, which has the facility.
Install(e, fn) == InstallOn(TRUE, e, fn)

newError(h, m) ==
    Append(h, Install(ErrorObject(m, Undefined, "Error", "new"), "newError"))

\* newError and wrap on a runtime with or without Error.captureStackTrace.
newErrorOn(has, h, m) ==
    Append(h, InstallOn(has, ErrorObject(m, Undefined, "Error", "new"), "newError"))

wrapOn(has, h, originalError, m) ==
    Append(h, InstallOn(has, ErrorObject(m, originalError, "Error", "wrap"), "wrap"))

\* A wrap that links a copy of the original error.
wrapCopy(h, originalError, m) ==
    Append(Append(h, h[originalError.id]),
           Install(ErrorObject(m, Ref(Len(h) + 1), "Error", "wrap"), "wrap"))

\* A wrap that captures the stack trace on the original instead of the wrapper.
wrapTouchingOriginal(h, originalError, m) ==
    Append([h EXCEPT ![originalError.id].stack = "at caller of wrap"],
           [Install(ErrorObject(m, originalError, "Error", "wrap"), "wrap")
               EXCEPT !.stack = "at construction"])

\* A wrap whose new error is its own cause.
wrapLinkingItself(h, originalError, m) ==
    Append(h, Install(ErrorObject(m, Ref(Len(h) + 1), "Error", "wrap"), "wrap"))

wrap(h, originalError, m) ==
    Append(h, Install(ErrorObject(m, originalError, "Error", "wrap"), "wrap"))

\* ---------------------------------------------------------------- toJSON
\* What `key in json` also finds on a plain object: Object.prototype's keys.
ObjectPrototypeKeys ==
    {"constructor", "toString", "toLocaleString", "valueOf", "hasOwnProperty",
     "isPrototypeOf", "propertyIsEnumerable", "__proto__"}

RECURSIVE createErrorToJSON(_, _)

\* A serialization of the cause as its message text.
createPlainObjectFromErrorFlat(h, err) == Str(GetMessage(h, err))

createPlainObjectFromError(h, err) == createErrorToJSON(h, err)

\* createErrorToJSON: name / message / stack, then cause (nested when it is an
\* Error, verbatim when it is another defined value), then every own
\* enumerable key that is not yet `in json`.
createErrorToJSON(h, this) ==
    LET obj == h[this.id]
        base == [name |-> Str(obj.name), message |-> Str(obj.message),
                 stack |-> Str(obj.stack)]
        json == IF InstanceOfError(h, obj.cause)
                THEN [cause |-> createPlainObjectFromError(h, obj.cause)] @@ base
                ELSE IF obj.cause # Undefined
                     THEN [cause |-> obj.cause] @@ base
                     ELSE base
        copied == {k \in DOMAIN obj.own :
                      k \notin DOMAIN json /\ k \notin ObjectPrototypeKeys}
    IN [k \in copied |-> obj.own[k]] @@ json

\* ---------------------------------------------------------------- traversals
RECURSIVE cause(_, _)
\* A cause that follows one link only.
causeOneLevel(h, error) ==
    IF InstanceOfError(h, GetCause(h, error)) THEN GetCause(h, error) ELSE error
\* cause(error): follow .cause while it is an Error.
cause(h, error) ==
    IF InstanceOfError(h, GetCause(h, error))
    THEN cause(h, GetCause(h, error))
    ELSE error

RECURSIVE isError(_, _, _)
RECURSIVE isErrorByMessage(_, _, _)
\* A membership test that compares messages instead of references.
isErrorByMessage(h, err, target) ==
    IF err.tag \in {"undefined", "null"} THEN FALSE
    ELSE IF err = target
            \/ (target.tag = "ref" /\ GetMessage(h, err) = GetMessage(h, target))
         THEN TRUE
    ELSE IF InstanceOfError(h, GetCause(h, err))
         THEN isErrorByMessage(h, GetCause(h, err), target)
         ELSE FALSE
\* A membership test without the currentError != undefined guard.
isErrorNoGuard(h, err, target) ==
    IF err = target THEN TRUE
    ELSE IF InstanceOfError(h, GetCause(h, err))
         THEN isError(h, GetCause(h, err), target)
         ELSE FALSE
\* isError(err, target): some node of err's chain === target.
isError(h, err, target) ==
    IF err.tag \in {"undefined", "null"} THEN FALSE
    ELSE IF err = target THEN TRUE
    ELSE IF InstanceOfError(h, GetCause(h, err))
         THEN isError(h, GetCause(h, err), target)
         ELSE FALSE

RECURSIVE asError(_, _, _)
RECURSIVE asErrorDeepest(_, _, _)
\* A search that prefers the innermost match.
asErrorDeepest(h, err, ErrorClass) ==
    IF err.tag \in {"undefined", "null"} THEN Undefined
    ELSE LET below == IF InstanceOfError(h, GetCause(h, err))
                      THEN asErrorDeepest(h, GetCause(h, err), ErrorClass)
                      ELSE Undefined
         IN IF below # Undefined THEN below
            ELSE IF InstanceOf(h, err, ErrorClass) THEN err ELSE Undefined
\* A search that falls back to err itself when nothing matches.
RECURSIVE asErrorOrSelf(_, _, _)
asErrorOrSelf(h, err, ErrorClass) ==
    IF err.tag \in {"undefined", "null"} THEN err
    ELSE IF InstanceOf(h, err, ErrorClass) THEN err
    ELSE IF InstanceOfError(h, GetCause(h, err))
         THEN LET below == asErrorOrSelf(h, GetCause(h, err), ErrorClass)
              IN IF InstanceOf(h, below, ErrorClass) THEN below ELSE err
         ELSE err
\* asError(err, ErrorClass): the first node of err's chain that is an
\* instance of ErrorClass, else undefined.
asError(h, err, ErrorClass) ==
    IF err.tag \in {"undefined", "null"} THEN Undefined
    ELSE IF InstanceOf(h, err, ErrorClass) THEN err
    ELSE IF InstanceOfError(h, GetCause(h, err))
         THEN asError(h, GetCause(h, err), ErrorClass)
         ELSE Undefined

\* ---------------------------------------------------------------- try
Digit(d) ==
    CASE d = 0 -> "0" [] d = 1 -> "1" [] d = 2 -> "2" [] d = 3 -> "3"
      [] d = 4 -> "4" [] d = 5 -> "5" [] d = 6 -> "6" [] d = 7 -> "7"
      [] d = 8 -> "8" [] d = 9 -> "9"

RECURSIVE NumToString(_)
NumToString(n) ==
    IF n < 10 THEN Digit(n) ELSE NumToString(n \div 10) \o Digit(n % 10)

\* String(v) throws for an object that has neither toString nor valueOf.
CanConvert(v) == v # BareObject

\* String(v) for a value that has a string form.
StringOf(h, v) ==
    CASE v.tag = "undefined" -> "undefined"
      [] v.tag = "null" -> "null"
      [] v.tag = "boolean" -> (IF v.id = 1 THEN "true" ELSE "false")
      [] v.tag = "number" -> NumToString(v.id)
      [] v.tag = "string" -> v.str
      [] v.tag = "object" -> "[object Object]"
      [] v.tag = "ref" -> toString(h, v)

\* How a call ends: the heap it leaves and the Result it returns, or the value
\* that escapes it.
Returns(h, d, e) == [heap |-> h, ret |-> [data |-> d, error |-> e]]
Throws(h, x) == [heap |-> h, ret |-> [thrown |-> x]]

\* tryCatch returning `data ?? undefined`: a null value is lost.
tryCatchNullish(h, p) ==
    IF p.state = "fulfilled"
    THEN Returns(h, IF p.value = Null THEN Undefined ELSE p.value, Undefined)
    ELSE IF InstanceOfError(h, p.value) THEN Returns(h, Undefined, p.value)
    ELSE IF CanConvert(p.value)
         THEN Returns(Append(h, ErrorObject(StringOf(h, p.value), Undefined,
                                            "Error", "try")),
                      Undefined, Ref(Len(h) + 1))
         ELSE Throws(h, TypeErrorValue)

\* tryCatch building `new Error(String(error))` for every rejection.
tryCatchRewraps(h, p) ==
    IF p.state = "fulfilled" THEN Returns(h, p.value, Undefined)
    ELSE IF CanConvert(p.value)
         THEN Returns(Append(h, ErrorObject(StringOf(h, p.value), Undefined,
                                            "Error", "try")),
                      Undefined, Ref(Len(h) + 1))
         ELSE Throws(h, TypeErrorValue)

\* tryCatch building the replacement error with the library's own newError.
tryCatchViaNewError(h, p) ==
    IF p.state = "fulfilled" THEN Returns(h, p.value, Undefined)
    ELSE IF InstanceOfError(h, p.value) THEN Returns(h, Undefined, p.value)
    ELSE IF CanConvert(p.value)
         THEN Returns(newError(h, StringOf(h, p.value)), Undefined, Ref(Len(h) + 1))
         ELSE Throws(h, TypeErrorValue)

\* tryCatch handing the rejection value over as it is.
tryCatchRaw(h, p) ==
    IF p.state = "fulfilled" THEN Returns(h, p.value, Undefined)
    ELSE Returns(h, Undefined, p.value)

\* tryCatch keeping one module-level error that every call overwrites.
tryCatchShared(h, p) ==
    IF p.state = "fulfilled" THEN Returns(h, p.value, Undefined)
    ELSE IF InstanceOfError(h, p.value) THEN Returns(h, Undefined, p.value)
    ELSE IF CanConvert(p.value)
         THEN LET made == {i \in DOMAIN h : h[i].origin = "try"}
                  i == CHOOSE j \in made : TRUE
              IN IF made = {}
                 THEN Returns(Append(h, ErrorObject(StringOf(h, p.value), Undefined,
                                                    "Error", "try")),
                              Undefined, Ref(Len(h) + 1))
                 ELSE Returns([h EXCEPT ![i].message = StringOf(h, p.value)],
                              Undefined, Ref(i))
         ELSE Throws(h, TypeErrorValue)

\* tryCatch from `await promise` on, for a settled promise p.
tryCatch(h, p) ==
    IF p.state = "fulfilled" THEN Returns(h, p.value, Undefined)
    ELSE IF InstanceOfError(h, p.value) THEN Returns(h, Undefined, p.value)
    ELSE IF CanConvert(p.value)
         THEN Returns(Append(h, ErrorObject(StringOf(h, p.value), Undefined,
                                            "Error", "try")),
                      Undefined, Ref(Len(h) + 1))
         ELSE Throws(h, TypeErrorValue)

\* fn(): one more invocation of the thunk.
Invoke(fn) == [fn EXCEPT !.invoked = @ + 1]

\* trySync handing the thrown value over as it is.
trySyncRaw(h, fn) ==
    [thunk |-> Invoke(fn)]
    @@ (IF fn.state = "returned" THEN Returns(h, fn.value, Undefined)
        ELSE Returns(h, Undefined, fn.value))

\* trySync calling the thunk a second time when the first call threw.
trySyncRetry(h, fn) ==
    [thunk |-> IF fn.state = "returned" THEN Invoke(fn) ELSE Invoke(Invoke(fn))]
    @@ (IF fn.state = "returned" THEN Returns(h, fn.value, Undefined)
        ELSE IF InstanceOfError(h, fn.value) THEN Returns(h, Undefined, fn.value)
        ELSE IF CanConvert(fn.value)
             THEN Returns(Append(h, ErrorObject(StringOf(h, fn.value), Undefined,
                                                "Error", "try")),
                          Undefined, Ref(Len(h) + 1))
             ELSE Throws(h, TypeErrorValue))

\* trySync for a thunk fn that returns or throws fn.value: `fn()` runs in the
\* try block; the outcome also holds the thunk with its count of invocations.
trySync(h, fn) ==
    [thunk |-> Invoke(fn)]
    @@ (IF fn.state = "returned" THEN Returns(h, fn.value, Undefined)
        ELSE IF InstanceOfError(h, fn.value) THEN Returns(h, Undefined, fn.value)
        ELSE IF CanConvert(fn.value)
             THEN Returns(Append(h, ErrorObject(StringOf(h, fn.value), Undefined,
                                                "Error", "try")),
                          Undefined, Ref(Len(h) + 1))
             ELSE Throws(h, TypeErrorValue))

\* ---------------------------------------------------------------- state machine
NoCall == [op |-> "none", a |-> Undefined, b |-> Undefined, ret |-> Undefined]
Call(o, x, y, r) == [op |-> o, a |-> x, b |-> y, ret |-> r]

\* obj.cause = v by a caller: the property is created enumerable unless the
\* constructor already installed it.
AssignCause(obj, v) ==
    [obj EXCEPT !.cause = v,
                !.own = IF obj.cause = Undefined THEN [cause |-> v] @@ obj.own
                        ELSE obj.own]

\* obj.message = m by a caller: refused by a frozen object.
AssignMessage(obj, m) == IF obj.frozen THEN obj ELSE [obj EXCEPT !.message = m]
Natives(h) == {i \in DOMAIN h : h[i].origin = "native"}

Init ==
    /\ heap = <<>>
    /\ last = NoCall
    /\ promises = <<>>
    /\ calls = <<>>

\* errors.new(m)
NewError(m) ==
    /\ last.op = "none"
    /\ Len(heap) < MaxHeap
    /\ heap' = newError(heap, m)
    /\ last' = Call("new", Str(m), Undefined, Ref(Len(heap')))

\* errors.wrap(e, m)
Wrap(e, m) ==
    /\ last.op = "none"
    /\ Len(heap) < MaxHeap
    /\ heap' = wrap(heap, e, m)
    /\ last' = Call("wrap", e, Str(m), Ref(Len(heap')))

\* A caller's own `new Error(m)` / `new CustomErrorOne(m)`, optionally with an
\* existing error as its cause.
NativeError(m, K, c) ==
    /\ last.op = "none"
    /\ Len(heap) < MaxHeap
    /\ Cardinality(Natives(heap)) < MaxNative
    /\ heap' = Append(heap, ErrorObject(m, c, K, "native"))
    /\ last' = Call("native", Str(m), c, Ref(Len(heap')))

\* A caller malforms its own error: e.cause = "not an error object".
Malform(e) ==
    /\ last.op = "none"
    /\ e.id \in Natives(heap)
    /\ heap[e.id].cause # Str(BadCause)
    /\ heap' = [heap EXCEPT ![e.id] = AssignCause(heap[e.id], Str(BadCause))]
    /\ last' = Call("malform", e, Str(BadCause), Undefined)

\* A caller assigns to the message of an error the library returned.
Assign(e, m) ==
    /\ last.op = "none"
    /\ heap[e.id].origin \in {"new", "wrap"}
    /\ heap[e.id].message # m
    /\ heap' = [heap EXCEPT ![e.id] = AssignMessage(heap[e.id], m)]
    /\ last' = Call("assign", e, Str(m), Undefined)

\* errors.cause(e)
CallCause(e) ==
    /\ last.op = "none"
    /\ last' = Call("cause", e, Undefined, cause(heap, e))
    /\ UNCHANGED heap

\* errors.is(e, t)
CallIs(e, t) ==
    /\ last.op = "none"
    /\ last' = Call("is", e, t, Bool(isError(heap, e, t)))
    /\ UNCHANGED heap

\* errors.as(e, K)
CallAs(e, K) ==
    /\ last.op = "none"
    /\ last' = Call("as", e, Str(K), asError(heap, e, K))
    /\ UNCHANGED heap

\* e.toString()
CallToString(e) ==
    /\ last.op = "none"
    /\ last' = Call("toString", e, Undefined, Str(toString(heap, e)))
    /\ UNCHANGED heap

\* e.toJSON(), for an error that has the property installed.
CallToJSON(e) ==
    /\ last.op = "none"
    /\ "toJSON" \in DOMAIN heap[e.id].own
    /\ last' = Call("toJSON", e, Undefined, createErrorToJSON(heap, e))
    /\ UNCHANGED heap

\* The caller has consumed the returned value and goes on.
Done ==
    /\ last.op # "none"
    /\ last' = NoCall
    /\ UNCHANGED heap

\* The state of tryCatch calls and of the promises given to them.
tvars == <<promises, calls>>

Next ==
    \/ \E m \in Msgs : NewError(m) /\ UNCHANGED tvars
    \/ \E e \in Refs(heap), m \in Msgs : Wrap(e, m) /\ UNCHANGED tvars
    \/ \E m \in Msgs, K \in Classes, c \in Refs(heap) \cup {Undefined} :
          NativeError(m, K, c) /\ UNCHANGED tvars
    \/ \E e \in Refs(heap) : Malform(e) /\ UNCHANGED tvars
    \/ \E e \in Refs(heap), m \in Msgs : Assign(e, m) /\ UNCHANGED tvars
    \/ \E e \in Refs(heap) : CallCause(e) /\ UNCHANGED tvars
    \/ \E e \in Refs(heap) \cup {Null, Undefined},
          t \in Refs(heap) \cup {Null, Undefined} : CallIs(e, t) /\ UNCHANGED tvars
    \/ \E e \in Refs(heap) \cup {Null, Undefined}, K \in Classes :
          CallAs(e, K) /\ UNCHANGED tvars
    \/ \E e \in Refs(heap) : CallToString(e) /\ UNCHANGED tvars
    \/ \E e \in Refs(heap) : CallToJSON(e) /\ UNCHANGED tvars
    \/ Done /\ UNCHANGED tvars

Spec == Init /\ [][Next]_vars

\* ---------------------------------------------------------------- stack capture
\* errors.new(m) on a runtime with or without Error.captureStackTrace.
NewErrorOn(has, m) ==
    /\ last.op = "none"
    /\ Len(heap) < MaxHeap
    /\ heap' = newErrorOn(has, heap, m)
    /\ last' = Call("new", Str(m), Undefined, Ref(Len(heap')))
                   @@ [captureStackTrace |-> has]

\* errors.wrap(e, m) on a runtime with or without Error.captureStackTrace.
WrapOn(has, e, m) ==
    /\ last.op = "none"
    /\ Len(heap) < MaxHeap
    /\ heap' = wrapOn(has, heap, e, m)
    /\ last' = Call("wrap", e, Str(m), Ref(Len(heap')))
                   @@ [captureStackTrace |-> has]

CaptureNext ==
    \/ \E has \in BOOLEAN, m \in Msgs : NewErrorOn(has, m) /\ UNCHANGED tvars
    \/ \E has \in BOOLEAN, e \in Refs(heap), m \in Msgs :
          WrapOn(has, e, m) /\ UNCHANGED tvars
    \/ \E m \in Msgs, K \in Classes : NativeError(m, K, Undefined) /\ UNCHANGED tvars
    \/ \E e \in Refs(heap) : CallToString(e) /\ UNCHANGED tvars
    \/ Done /\ UNCHANGED tvars

SpecCapture == Init /\ [][CaptureNext]_vars

\* ---------------------------------------------------------------- traversal loops
\* The loops of cause, isError, asError and createErrorChainToString, and the
\* recursion of createErrorToJSON, one iteration per step.  A traversal in
\* progress is held in `last`: cur is the loop variable (result /
\* currentError / this), steps the nodes visited so far, msgs the messages
\* array of createErrorChainToString.
Begin(o, e, arg) ==
    /\ last.op = "none"
    /\ last' = Call(o, e, arg, Undefined)
                   @@ [pc |-> "loop", cur |-> e, steps |-> 0, msgs |-> <<>>]
    /\ UNCHANGED heap

Running == "pc" \in DOMAIN last /\ last.pc = "loop"
Returned == "pc" \in DOMAIN last /\ last.pc = "returned"

\* An iteration that gives up once it has visited more nodes than exist.
IterationDetectingCycles(h, w) ==
    LET next == GetCause(h, w.cur)
        on == [w EXCEPT !.cur = next, !.steps = @ + 1]
        return(v) == [w EXCEPT !.pc = "returned", !.ret = v, !.steps = @ + 1]
    IN IF w.steps >= Len(h) THEN return(Undefined)
       ELSE IF InstanceOfError(h, next) THEN on ELSE return(w.cur)

\* One iteration of the loop of w.op on the node w.cur.
Iteration(h, w) ==
    LET next == GetCause(h, w.cur)
        on == [w EXCEPT !.cur = next, !.steps = @ + 1]
        return(v) == [w EXCEPT !.pc = "returned", !.ret = v, !.steps = @ + 1]
    IN CASE w.op = "cause" ->
              IF InstanceOfError(h, next) THEN on ELSE return(w.cur)
         [] w.op = "is" ->
              IF w.cur = w.b THEN return(Bool(TRUE))
              ELSE IF InstanceOfError(h, next) THEN on ELSE return(Bool(FALSE))
         [] w.op = "as" ->
              IF InstanceOf(h, w.cur, w.b.str) THEN return(w.cur)
              ELSE IF InstanceOfError(h, next) THEN on ELSE return(Undefined)
         [] w.op = "toString" ->
              LET messages == Append(w.msgs, GetMessage(h, w.cur))
              IN IF InstanceOfError(h, next)
                 THEN [on EXCEPT !.msgs = messages]
                 ELSE [return(Str(Join(messages, ": "))) EXCEPT !.msgs = messages]
         [] w.op = "toJSON" ->
              IF InstanceOfError(h, next) THEN on
              ELSE return(createErrorToJSON(h, w.a))

\* The traversal in progress runs one more iteration.
Step ==
    /\ Running
    /\ last.steps < MaxSteps
    /\ last' = Iteration(heap, last)
    /\ UNCHANGED heap

\* A caller assigns e.cause = c, c any existing error: chains may now cycle.
Relink(e, c) ==
    /\ last.op = "none"
    /\ heap[e.id].cause # c
    /\ heap' = [heap EXCEPT ![e.id] = AssignCause(heap[e.id], c)]
    /\ last' = Call("relink", e, c, Undefined)

\* The traversals a caller starts on the error e.
Traversal(e) ==
    \/ Begin("cause", e, Undefined)
    \/ \E t \in Refs(heap) : Begin("is", e, t)
    \/ \E K \in Classes : Begin("as", e, Str(K))
    \/ heap[e.id].toStr = "chain" /\ Begin("toString", e, Undefined)

\* e.toJSON() as a descent along the cause links, one recursive call per step.
Descent(e) ==
    "toJSON" \in DOMAIN heap[e.id].own /\ Begin("toJSON", e, Undefined)

\* Chains built with newError and wrap over callers' own cause-less errors.
WalkNext ==
    \/ Len(heap) < MaxHeap /\ NewError("a") /\ UNCHANGED tvars
    \/ \E e \in Refs(heap) : Len(heap) < MaxHeap /\ Wrap(e, "a") /\ UNCHANGED tvars
    \/ \E K \in Classes :
          Len(heap) < MaxHeap /\ NativeError("b", K, Undefined) /\ UNCHANGED tvars
    \/ \E e \in Refs(heap) : Traversal(e) /\ UNCHANGED tvars
    \/ \E e \in Refs(heap) : Descent(e) /\ UNCHANGED tvars
    \/ Step /\ UNCHANGED tvars
    \/ ~Running /\ Done /\ UNCHANGED tvars

SpecWalk == Init /\ [][WalkNext]_vars

\* The same with callers that reassign cause fields.
CycleNext ==
    \/ Len(heap) < MaxWalkHeap /\ NewError("a") /\ UNCHANGED tvars
    \/ \E e \in Refs(heap) : Len(heap) < MaxWalkHeap /\ Wrap(e, "a") /\ UNCHANGED tvars
    \/ \E K \in Classes :
          Len(heap) < MaxWalkHeap /\ NativeError("b", K, Undefined) /\ UNCHANGED tvars
    \/ \E e \in Refs(heap), c \in Refs(heap) : Relink(e, c) /\ UNCHANGED tvars
    \/ \E e \in Refs(heap) : Traversal(e) /\ UNCHANGED tvars
    \/ Step /\ UNCHANGED tvars
    \/ ~Running /\ Done /\ UNCHANGED tvars

SpecCycle == Init /\ [][CycleNext]_vars

\* ---------------------------------------------------------------- try state machine
\* The values a promise settles with and a thunk returns or throws.
TryValues ==
    {Undefined, Null, Num(0), Str(""), Str("plain string"), Bool(FALSE),
     PlainObject, BareObject}

\* A caller starts an asynchronous computation: a pending promise.
NewPromise ==
    /\ last.op = "none"
    /\ promises' = Append(promises, [state |-> "pending", value |-> Undefined])
    /\ UNCHANGED <<heap, last, calls>>

\* The computation settles: the promise is fulfilled or rejected with v.
Settle(p, st, v) ==
    /\ last.op = "none"
    /\ promises[p].state = "pending"
    /\ promises' = [promises EXCEPT ![p] = [state |-> st, value |-> v]]
    /\ UNCHANGED <<heap, last, calls>>

\* errors.try(promise): runs to `await promise` and suspends there.
TryCatchStart(p) ==
    /\ last.op = "none"
    /\ calls' = Append(calls, [promise |-> p, pc |-> "await", ret |-> Undefined,
                                awaits |-> 1])
    /\ UNCHANGED <<heap, last, promises>>

\* A tryCatch that gives up waiting: it may finish while the promise is still
\* pending, with a timeout error.
TryCatchResumeOrTimeout(c) ==
    /\ last.op = "none"
    /\ calls[c].pc = "await"
    /\ LET p == promises[calls[c].promise]
           r == IF p.state = "pending"
                THEN tryCatch(heap, [state |-> "rejected", value |-> Str("timeout")])
                ELSE tryCatch(heap, p)
       IN /\ heap' = r.heap
          /\ calls' = [calls EXCEPT ![c].pc = IF "thrown" \in DOMAIN r.ret
                                              THEN "rejected" ELSE "resolved",
                                    ![c].ret = r.ret]
    /\ UNCHANGED <<last, promises>>

\* The awaited promise has settled: tryCatch resumes and finishes.
TryCatchResume(c) ==
    /\ last.op = "none"
    /\ calls[c].pc = "await"
    /\ promises[calls[c].promise].state # "pending"
    /\ LET r == tryCatch(heap, promises[calls[c].promise])
       IN /\ heap' = r.heap
          /\ calls' = [calls EXCEPT ![c].pc = IF "thrown" \in DOMAIN r.ret
                                              THEN "rejected" ELSE "resolved",
                                    ![c].ret = r.ret]
    /\ UNCHANGED <<last, promises>>

\* errors.trySync(fn) for a thunk that returns v (st = "returned") or throws v.
TrySync(st, v) ==
    /\ last.op = "none"
    /\ LET r == trySync(heap, [state |-> st, value |-> v, invoked |-> 0])
       IN /\ heap' = r.heap
          /\ last' = Call("trySync", Str(st), v, r.ret)
                         @@ [invoked |-> r.thunk.invoked]
    /\ UNCHANGED tvars

\* The heap has room, within cap, for the error a finishing tryCatch call or
\* a trySync call may create.
ResumeFits(c, cap) ==
    promises[calls[c].promise].state # "pending" =>
        Len(tryCatch(heap, promises[calls[c].promise]).heap) <= cap
SyncFits(st, v, cap) ==
    Len(trySync(heap, [state |-> st, value |-> v, invoked |-> 0]).heap) <= cap

TryNext ==
    \/ \E m \in Msgs : Len(heap) < MaxTryHeap /\ NewError(m) /\ UNCHANGED tvars
    \/ \E e \in Refs(heap), m \in Msgs :
          Len(heap) < MaxTryHeap /\ Wrap(e, m) /\ UNCHANGED tvars
    \/ \E m \in Msgs, K \in Classes :
          Len(heap) < MaxTryHeap /\ NativeError(m, K, Undefined) /\ UNCHANGED tvars
    \/ \E e \in Refs(heap) : CallCause(e) /\ UNCHANGED tvars
    \/ \E e \in Refs(heap), t \in Refs(heap) : CallIs(e, t) /\ UNCHANGED tvars
    \/ \E e \in Refs(heap), K \in Classes : CallAs(e, K) /\ UNCHANGED tvars
    \/ \E e \in Refs(heap) : CallToString(e) /\ UNCHANGED tvars
    \/ \E e \in Refs(heap) : CallToJSON(e) /\ UNCHANGED tvars
    \/ Done /\ UNCHANGED tvars
    \/ Len(promises) < MaxPromises /\ NewPromise
    \/ \E p \in DOMAIN promises, st \in {"fulfilled", "rejected"},
          v \in TryValues \cup Refs(heap) : Settle(p, st, v)
    \/ \E p \in DOMAIN promises : Len(calls) < MaxCalls /\ TryCatchStart(p)
    \/ \E c \in DOMAIN calls : ResumeFits(c, MaxTryHeap) /\ TryCatchResume(c)
    \/ \E st \in {"returned", "threw"}, v \in TryValues \cup Refs(heap) :
          SyncFits(st, v, MaxTryHeap) /\ TrySync(st, v)

SpecTry == Init /\ [][TryNext]_vars

\* ---------------------------------------------------------------- concurrent calls
\* How the promises of concurrent calls settle: fulfilled with a value,
\* rejected with a non-Error value or with the oldest error.
AsyncSettlements ==
    {<<"fulfilled", Num(0)>>}
    \cup {<<"rejected", v>> :
            v \in {Str("plain string"), Num(0)} \cup (Refs(heap) \cap {Ref(1)})}

\* Several tryCatch calls in flight, each on its own promise, with newError,
\* wrap, cause, is and as called between their suspension points.
AsyncNext ==
    \/ Len(heap) < MaxAsyncHeap /\ NewError("a") /\ UNCHANGED tvars
    \/ \E e \in Refs(heap) : Len(heap) < MaxAsyncHeap /\ Wrap(e, "a") /\ UNCHANGED tvars
    \/ \E e \in Refs(heap) : CallCause(e) /\ UNCHANGED tvars
    \/ \E e \in Refs(heap), t \in Refs(heap) : CallIs(e, t) /\ UNCHANGED tvars
    \/ \E e \in Refs(heap), K \in Classes : CallAs(e, K) /\ UNCHANGED tvars
    \/ Done /\ UNCHANGED tvars
    \/ Len(promises) < MaxInFlight /\ NewPromise
    \/ \E p \in DOMAIN promises, s \in AsyncSettlements : Settle(p, s[1], s[2])
    \/ Len(calls) < Len(promises) /\ TryCatchStart(Len(calls) + 1)
    \/ \E c \in DOMAIN calls : ResumeFits(c, MaxAsyncHeap) /\ TryCatchResume(c)

SpecAsync == Init /\ [][AsyncNext]_vars

\* ---------------------------------------------------------------- properties
\* The nodes of e's chain: e and everything reached over cause links that
\* hold an Error.
RECURSIVE ChainOf(_, _)
ChainOf(h, e) ==
    {e} \cup (IF h[e.id].cause.tag = "ref" THEN ChainOf(h, h[e.id].cause) ELSE {})

\* The number of cause links below e.
RECURSIVE Depth(_, _)
Depth(h, e) ==
    IF h[e.id].cause.tag = "ref" THEN 1 + Depth(h, h[e.id].cause) ELSE 0

\* C1: wrap(e, m) returns an error w other than e whose message is m and whose
\* cause is e itself (the same object, not a copy).
C1_WrapKeepsCauseIdentity ==
    last.op = "wrap" =>
        /\ last.ret.tag = "ref"
        /\ last.ret.id \in DOMAIN heap
        /\ last.ret # last.a
        /\ heap[last.ret.id].message = last.b.str
        /\ heap[last.ret.id].cause = last.a

\* C1 witness: an empty-message wrap of an error that has a structurally equal
\* twin elsewhere in the heap.
C1_Witness ==
    /\ last.op = "wrap"
    /\ last.b = Str("")
    /\ \E i \in DOMAIN heap :
          i # last.a.id /\ heap[i] = heap[last.a.id]

\* C2 (as stated): for every e1, library-made or native, wrap(e1, m).toString()
\* is m + ": " + e1.toString().
C2_RenderedViaCauseToString ==
    last.op = "wrap" =>
        toString(heap, last.ret) = last.b.str \o ": " \o toString(heap, last.a)

\* C2 (amended): wrap(e1, m).toString() is m + ": " + e1.toString() when e1 was
\* made by newError / wrap; for a native e1 it is m + ": " + the messages of
\* e1's chain joined by ": ", without e1's default "<name>: " rendering.
RECURSIVE MessagesFrom(_, _)
MessagesFrom(h, e) ==
    IF h[e.id].cause.tag = "ref"
    THEN h[e.id].message \o ": " \o MessagesFrom(h, h[e.id].cause)
    ELSE h[e.id].message

C2_RenderedWrap ==
    last.op = "wrap" =>
        toString(heap, last.ret) =
            last.b.str \o ": " \o
            (IF heap[last.a.id].origin \in {"new", "wrap"}
             THEN toString(heap, last.a)
             ELSE MessagesFrom(heap, last.a))

\* C2 witness: an empty-message wrap of a library-made error that itself has a
\* native cause.
C2_Witness ==
    /\ last.op = "wrap"
    /\ last.b = Str("")
    /\ heap[last.a.id].origin = "wrap"
    /\ heap[last.a.id].cause.tag = "ref"
    /\ heap[heap[last.a.id].cause.id].origin = "native"

\* Every node of e's chain was made by newError / wrap.
BuiltByLibrary(h, e) == \A x \in ChainOf(h, e) : h[x.id].origin \in {"new", "wrap"}

\* C3: for newError(m0) wrapped n times with m1..mn, toString() of the outermost
\* error is mn + ": " + ... + ": " + m1 + ": " + m0.
C3_OuterToInnerOrder ==
    (last.op = "toString" /\ BuiltByLibrary(heap, last.a)) =>
        last.ret = Str(MessagesFrom(heap, last.a))

\* C3 witness: toString() of a twice-wrapped newError whose top and middle
\* messages differ.
C3_Witness ==
    /\ last.op = "toString"
    /\ BuiltByLibrary(heap, last.a)
    /\ Depth(heap, last.a) = 2
    /\ heap[last.a.id].message # heap[heap[last.a.id].cause.id].message

\* C4: wrapping a plain native Error p renders as m + ": " + p.message, with no
\* "Error: " prefix, and p keeps the runtime's default toString.
C4_NativeCauseBareMessage ==
    (/\ last.op = "wrap"
     /\ heap[last.a.id].origin = "native"
     /\ heap[last.a.id].cause.tag # "ref") =>
        /\ toString(heap, last.ret) = last.b.str \o ": " \o heap[last.a.id].message
        /\ heap[last.a.id].toStr = "default"
        /\ toString(heap, last.a) =
              (IF heap[last.a.id].message = "" THEN heap[last.a.id].name
               ELSE heap[last.a.id].name \o ": " \o heap[last.a.id].message)

\* C4 witness: a wrap of a native Error with a non-empty message.
C4_Witness ==
    /\ last.op = "wrap"
    /\ heap[last.a.id].origin = "native"
    /\ heap[last.a.id].cause = Undefined
    /\ heap[last.a.id].message = "a"
    /\ last.b = Str("a")

\* C5: newError(m) has message m, no cause, and toString() exactly m.
C5_NewErrorTerminal ==
    last.op = "new" =>
        /\ heap[last.ret.id].message = last.a.str
        /\ heap[last.ret.id].cause = Undefined
        /\ toString(heap, last.ret) = last.a.str

\* C5 witness: newError("").
C5_Witness ==
    /\ last.op = "new"
    /\ last.a = Str("")
    /\ toString(heap, last.ret) = ""

\* C6: cause(top) returns, by reference, the terminal node of top's chain: top
\* itself at depth 0, and the innermost error at any depth.
C6_CauseReturnsRoot ==
    last.op = "cause" =>
        /\ last.ret \in ChainOf(heap, last.a)
        /\ heap[last.ret.id].cause.tag # "ref"
        /\ (Depth(heap, last.a) = 0 => last.ret = last.a)
        /\ Depth(heap, last.ret) = 0

\* C6 witness: cause() of a chain of depth 2 returns the innermost node, which
\* is neither top nor the intermediate wrapper.
C6_Witness ==
    /\ last.op = "cause"
    /\ Depth(heap, last.a) = 2
    /\ last.ret # last.a
    /\ last.ret # heap[last.a.id].cause
    /\ last.ret = heap[heap[last.a.id].cause.id].cause

\* e is a wrapper whose direct cause is an error with a non-Error cause.
WrapsMalformed(h, e) ==
    /\ e.tag = "ref"
    /\ h[e.id].cause.tag = "ref"
    /\ h[h[e.id].cause.id].cause.tag = "string"

\* C7: a node whose cause holds a non-Error value ends the chain for every
\* traversal: cause() returns the malformed node, toString collects nothing
\* past it, is() finds only the wrapper and the malformed node, and as() only
\* considers those two.
C7_NonErrorCauseEndsChain ==
    WrapsMalformed(heap, last.a) =>
        LET top == last.a
            malformed == heap[last.a.id].cause
        IN /\ last.op = "cause" => last.ret = malformed
           /\ (last.op = "toString" /\ heap[top.id].toStr = "chain") =>
                 last.ret = Str(heap[top.id].message \o ": " \o
                                heap[malformed.id].message)
           /\ last.op = "is" =>
                 (last.ret = Bool(TRUE) <=> last.b \in {top, malformed})
           /\ last.op = "as" =>
                 /\ last.ret \in {top, malformed, Undefined}
                 /\ last.ret = (IF last.b.str = "Error" THEN top
                                ELSE IF heap[top.id].class = last.b.str THEN top
                                ELSE IF heap[malformed.id].class = last.b.str
                                     THEN malformed
                                     ELSE Undefined)

\* C7 witness: cause() of a wrapper of a malformed error, with a third error in
\* the heap that the malformed error pointed to before it was malformed.
C7_Witness ==
    /\ last.op = "cause"
    /\ WrapsMalformed(heap, last.a)
    /\ last.ret = heap[last.a.id].cause
    /\ \E i \in DOMAIN heap : Ref(i) \notin ChainOf(heap, last.a)

\* C8: is(error, target) is true iff target is error itself or a node reached
\* from error over Error cause links, compared by reference.
C8_IsIffInChain ==
    (last.op = "is" /\ last.a.tag = "ref") =>
        (last.ret = Bool(TRUE) <=> last.b \in ChainOf(heap, last.a))

\* C8 witness: is(e1, e2) is false for two distinct errors that are
\* structurally equal and not in each other's chain.
C8_Witness ==
    /\ last.op = "is"
    /\ last.a.tag = "ref" /\ last.b.tag = "ref"
    /\ last.a # last.b
    /\ heap[last.a.id] = heap[last.b.id]
    /\ last.ret = Bool(FALSE)

\* C9: is(error, target) is false whenever error is null or undefined, and
\* whenever target is null or undefined.
C9_IsNullishFalse ==
    (/\ last.op = "is"
     /\ (last.a.tag \in {"null", "undefined"} \/ last.b.tag \in {"null", "undefined"})) =>
        last.ret = Bool(FALSE)

\* C9 witness: is(null, null).
C9_Witness ==
    /\ last.op = "is"
    /\ last.a = Null
    /\ last.b = Null
    /\ last.ret = Bool(FALSE)

\* x is an instance of class K, read off the node's class.
IsA(h, x, K) == K = "Error" \/ h[x.id].class = K

\* C10: as(error, Kind) returns the outermost node of error's chain that is an
\* instance of Kind; error itself is checked first.
C10_AsReturnsFirstMatch ==
    (last.op = "as" /\ last.a.tag = "ref") =>
        LET K == last.b.str
            matches == {x \in ChainOf(heap, last.a) : IsA(heap, x, K)}
        IN /\ IsA(heap, last.a, K) => last.ret = last.a
           /\ matches # {} =>
                 /\ last.ret \in matches
                 /\ \A x \in matches : x \in ChainOf(heap, last.ret)

\* C10 witness: as(top, Error) on a chain of depth 2, where all three nodes
\* match, returns top.
C10_Witness ==
    /\ last.op = "as"
    /\ last.a.tag = "ref"
    /\ last.b = Str("Error")
    /\ Depth(heap, last.a) = 2
    /\ last.ret = last.a

\* C11: as(error, Kind) is undefined when no node of error's chain is an
\* instance of Kind (also when the chain ends at a non-Error cause first) and
\* when error itself is null or undefined.
C11_AsUndefinedWithoutMatch ==
    (/\ last.op = "as"
     /\ \/ last.a.tag \in {"null", "undefined"}
        \/ \A x \in ChainOf(heap, last.a) : ~IsA(heap, x, last.b.str)) =>
        last.ret = Undefined

\* C11 witness: as(wrapper, CustomErrorOne) is undefined where the wrapper's
\* chain ends at a malformed plain Error.
C11_Witness ==
    /\ last.op = "as"
    /\ WrapsMalformed(heap, last.a)
    /\ last.b = Str("CustomErrorOne")
    /\ last.ret = Undefined

\* C19: every error returned by errors.new / errors.wrap is frozen, and a
\* caller's assignment to its message leaves the object unchanged.
C19_ReturnedErrorsFrozen ==
    /\ \A i \in DOMAIN heap :
          heap[i].origin \in {"new", "wrap"} => heap[i].frozen
    /\ last.op = "assign" => heap[last.a.id].message # last.b.str

\* j is the mapping the serialization rule gives for e: name, message and
\* stack; a nested mapping of the same shape under cause when e's cause is an
\* Error; the cause itself when it is another value; no cause key otherwise.
RECURSIVE JsonShape(_, _, _)
JsonShape(h, j, e) ==
    /\ {"name", "message", "stack"} \subseteq DOMAIN j
    /\ j.name = Str(h[e.id].name)
    /\ j.message = Str(h[e.id].message)
    /\ j.stack = Str(h[e.id].stack)
    /\ LET c == h[e.id].cause
       IN CASE c.tag = "ref" ->
                 /\ "cause" \in DOMAIN j
                 /\ "tag" \notin DOMAIN j.cause
                 /\ JsonShape(h, j.cause, c)
            [] c = Undefined -> "cause" \notin DOMAIN j
            [] OTHER -> "cause" \in DOMAIN j /\ j.cause = c

\* C20: toJSON() of an error made by newError / wrap has the keys name, message
\* and stack, and cause iff a cause is present: nested by the same rule, one
\* level per chain link, for an Error cause (library-made or native), and
\* verbatim for a non-Error cause.
C20_ToJSONShape ==
    last.op = "toJSON" => JsonShape(heap, last.ret, last.a)

\* C20 witness: toJSON() of a twice-wrapped native error whose cause is a
\* string: two nested mappings, the string verbatim in the innermost.
C20_Witness ==
    /\ last.op = "toJSON"
    /\ Depth(heap, last.a) = 2
    /\ heap[heap[heap[last.a.id].cause.id].cause.id].cause = Str(BadCause)
    /\ last.ret.cause.cause.cause = Str(BadCause)

\* ---------------------------------------------------------------- tryCatch
\* The calls of tryCatch that have returned a Result.
Resolved == {c \in DOMAIN calls : calls[c].pc = "resolved"}
\* The promise a call of tryCatch was given.
PromiseOf(c) == promises[calls[c].promise]

\* C12: when the promise given to tryCatch is fulfilled with v, whatever v is
\* (undefined and null included), the Result is {data: v, error: undefined}.
C12_FulfilledGivesData ==
    \A c \in DOMAIN calls :
        (calls[c].pc # "await" /\ PromiseOf(c).state = "fulfilled") =>
            /\ calls[c].pc = "resolved"
            /\ calls[c].ret = [data |-> PromiseOf(c).value, error |-> Undefined]

C12_Witness ==
    \E c \in Resolved :
        /\ PromiseOf(c) = [state |-> "fulfilled", value |-> Null]
        /\ calls[c].ret.data = Null

\* The calls of tryCatch that have finished, with a Result or with an exception.
Finished == {c \in DOMAIN calls : calls[c].pc # "await"}

\* C13: when the promise rejects with an Error instance x, of Error or of a
\* subclass, the Result is {data: undefined, error: x} with x the very same
\* object, still as its constructor made it: its class, its own fields and its
\* default rendering ("Error: <message>" for a plain Error) are kept.
C13_ErrorRejectionKeepsInstance ==
    \A c \in Finished :
        LET x == PromiseOf(c).value
        IN (PromiseOf(c).state = "rejected" /\ InstanceOfError(heap, x)) =>
            /\ calls[c].pc = "resolved"
            /\ calls[c].ret = [data |-> Undefined, error |-> x]
            /\ heap[x.id].origin = "native" =>
                 /\ heap[x.id] = ErrorObject(heap[x.id].message, heap[x.id].cause,
                                             heap[x.id].class, "native")
                 /\ heap[x.id].own = ClassProps(heap[x.id].class)
                 /\ toString(heap, x) = DefaultToString(heap, x)
                 /\ (heap[x.id].class = "Error" /\ heap[x.id].message # "") =>
                        toString(heap, x) = "Error: " \o heap[x.id].message

C13_Witness ==
    \E c \in Resolved :
        /\ PromiseOf(c).state = "rejected"
        /\ InstanceOfError(heap, PromiseOf(c).value)
        /\ heap[PromiseOf(c).value.id].class = "CustomErrorOne"
        /\ calls[c].ret.error = PromiseOf(c).value
        /\ heap[calls[c].ret.error.id].own.one = Str("propertyOne")

\* The string form the runtime gives to the non-Error values of the model.
StringForm(v) ==
    CASE v = Str("plain string") -> "plain string"
      [] v = Str("") -> ""
      [] v = Num(0) -> "0"
      [] v = Null -> "null"
      [] v = Undefined -> "undefined"
      [] v = Bool(FALSE) -> "false"
      [] v = PlainObject -> "[object Object]"

TryResults ==
    {[ok |-> PromiseOf(c).state = "fulfilled", value |-> PromiseOf(c).value,
      ret |-> calls[c].ret] : c \in Resolved}
    \cup (IF last.op = "trySync" /\ "thrown" \notin DOMAIN last.ret
          THEN {[ok |-> last.a = Str("returned"), value |-> last.b, ret |-> last.ret]}
          ELSE {})

\* A field of a Result is present when it is neither undefined nor null.
Present(v) == v \notin {Undefined, Null}

\* C15: every Result returned by tryCatch or trySync is an either/or: data and
\* error are never both present; error is an Error instance exactly when the
\* computation rejected or threw, whatever the value (undefined, null, 0, ""
\* and false included); error is undefined exactly when it succeeded; and a
\* Result with neither field present is a success with undefined or null.
C15_ResultIsEitherOr ==
    \A r \in TryResults :
        /\ DOMAIN r.ret = {"data", "error"}
        /\ ~(Present(r.ret.data) /\ Present(r.ret.error))
        /\ InstanceOfError(heap, r.ret.error) <=> ~r.ok
        /\ r.ret.error = Undefined <=> r.ok
        /\ ~r.ok => r.ret.data = Undefined
        /\ (~Present(r.ret.data) /\ ~Present(r.ret.error)) =>
               (r.ok /\ r.value \in {Undefined, Null})

C15_Witness ==
    /\ \E r \in TryResults :
          ~r.ok /\ r.value = Bool(FALSE) /\ InstanceOfError(heap, r.ret.error)
    /\ \E r \in TryResults :
          r.ok /\ r.value = Undefined /\ r.ret = [data |-> Undefined, error |-> Undefined]

\* A promise and a thunk end the same way: fulfilled / returned, or rejected /
\* threw, with the same value.
SameSettlement(p, st, v) ==
    /\ p.value = v
    /\ (p.state = "fulfilled" /\ st = "returned") \/ (p.state = "rejected" /\ st = "threw")

\* The outcomes s of trySync and a of tryCatch agree for the value v: the same
\* data and the same Error instance, or, for a non-Error v, two errors made by
\* the two calls that are equal field by field, or the same escaping exception.
Mirrors(s, a, st, v) ==
    IF st = "threw" /\ ~InstanceOfError(heap, v) /\ "thrown" \notin DOMAIN s
    THEN /\ DOMAIN a = {"data", "error"} /\ a.data = s.data
         /\ InstanceOfError(heap, s.error) /\ InstanceOfError(heap, a.error)
         /\ s.error # a.error
         /\ heap[s.error.id] = heap[a.error.id]
    ELSE s = a

C17_NoOperationThrows ==
    /\ \A c \in DOMAIN calls : calls[c].pc # "rejected"
    /\ last.op = "trySync" => DOMAIN last.ret = {"data", "error"}

\* C18: no operation of the library (newError, wrap, cause, is, as, toString,
\* toJSON, tryCatch, trySync) writes to an error that existed before it: every
\* error keeps its message, cause, stack, toString and all other fields in
\* every step; in particular wrap(e, m) leaves e untouched.
C18_ExistingErrorsUnchanged ==
    [][\A i \in DOMAIN heap : i \in DOMAIN heap' /\ heap'[i] = heap[i]]_vars

C18_Witness ==
    /\ last.op = "wrap"
    /\ heap[last.a.id].origin = "new"
    /\ heap[last.a.id].cause = Undefined
    /\ heap[last.a.id].stack = "at caller of newError"
    /\ \E c \in Resolved : calls[c].ret.error = last.a

\* ---------------------------------------------------------------- toJSON keys
\* j, the serialization of e, has the keys name, message, stack, cause when e
\* has a defined cause, and every own enumerable key of e, the latter with e's
\* values; so has the nested serialization of every Error below e.
RECURSIVE OwnKeysCopied(_, _, _)
OwnKeysCopied(h, j, e) ==
    LET obj == h[e.id]
        output == {"name", "message", "stack"}
                      \cup (IF obj.cause # Undefined THEN {"cause"} ELSE {})
    IN /\ DOMAIN j = output \cup DOMAIN obj.own
       /\ \A k \in DOMAIN obj.own \ output : j[k] = obj.own[k]
       /\ InstanceOfError(h, obj.cause) => OwnKeysCopied(h, j.cause, obj.cause)

\* C21: in the mapping toJSON() returns, every own enumerable property of the
\* error whose key is not name, message, stack or cause is copied with its
\* value, whatever its name, and no other key is added; likewise for every
\* node of the chain.
C21_EveryOwnKeyCopied ==
    last.op = "toJSON" => OwnKeysCopied(heap, last.ret, last.a)

\* ---------------------------------------------------------------- stack capture
\* The function that creates the errors of each origin.
Creator(who) == IF who = "new" THEN "newError" ELSE "wrap"

\* C22: on a runtime that has Error.captureStackTrace each call of newError or
\* wrap calls it exactly once, with the new error and with newError resp. wrap;
\* on a runtime without it the call is not made, and the error returned still
\* has the message and the cause given, and the installed toString. No call is
\* ever made with another error.
C22_StackCaptureBestEffort ==
    /\ last.op \in {"new", "wrap"} =>
         LET e == heap[last.ret.id]
         IN /\ InstanceOfError(heap, last.ret)
            /\ e.captured = IF last.captureStackTrace
                            THEN <<Creator(last.op)>> ELSE <<>>
            /\ e.stack = IF last.captureStackTrace
                         THEN "at caller of " \o Creator(last.op)
                         ELSE "at construction"
            /\ e.message = (IF last.op = "new" THEN last.a.str ELSE last.b.str)
            /\ e.cause = (IF last.op = "new" THEN Undefined ELSE last.a)
            /\ e.toStr = "chain"
    /\ \A i \in DOMAIN heap :
         /\ heap[i].origin = "native" => heap[i].captured = <<>>
         /\ heap[i].origin \in {"new", "wrap"} =>
              heap[i].captured \in {<<>>, <<Creator(heap[i].origin)>>}

C22_Witness ==
    /\ last.op = "wrap"
    /\ ~last.captureStackTrace
    /\ heap[last.ret.id].captured = <<>>
    /\ heap[last.ret.id].cause = last.a
    /\ heap[last.a.id].captured = <<"newError">>

\* ---------------------------------------------------------------- settling
\* C23: tryCatch has no timeout, retry or cancellation: as long as the promise
\* it was given is pending, the call stays at its await and the promise it
\* returned is neither resolved nor rejected; so it never settles when the
\* given promise never does.
C23_PendingWhilePromisePending ==
    \A c \in DOMAIN calls :
        PromiseOf(c).state = "pending" =>
            /\ calls[c].pc = "await"
            /\ calls[c].ret = Undefined

C23_Witness ==
    /\ \E c \in DOMAIN calls : PromiseOf(c).state = "pending" /\ calls[c].pc = "await"
    /\ Len(heap) = MaxTryHeap
    /\ last.op = "trySync"

\* C24: trySync invokes its thunk exactly once, within the call, whether the
\* thunk returned or threw; tryCatch awaits its promise once, and once the call
\* has finished it is never restarted: its outcome and the settlement of the
\* promise stay as they are.
C24_InvokedOnce ==
    /\ [](/\ last.op = "trySync" => last.invoked = 1
          /\ \A c \in DOMAIN calls : calls[c].awaits = 1)
    /\ [][/\ \A c \in DOMAIN calls :
               /\ c \in DOMAIN calls'
               /\ calls'[c].promise = calls[c].promise
               /\ calls[c].pc # "await" => calls'[c] = calls[c]
          /\ \A p \in DOMAIN promises :
               promises[p].state # "pending" => promises'[p] = promises[p]]_vars

C24_Witness ==
    /\ last.op = "trySync"
    /\ last.a = Str("threw")
    /\ last.invoked = 1
    /\ \E c \in Finished : PromiseOf(c).state = "rejected" /\ calls[c].awaits = 1

\* ---------------------------------------------------------------- concurrency
\* The outcome of call c is the one its own promise's settlement determines.
OwnSettlement(c) ==
    LET p == PromiseOf(c)
        r == calls[c].ret
    IN IF p.state = "fulfilled" THEN r = [data |-> p.value, error |-> Undefined]
       ELSE IF InstanceOfError(heap, p.value)
            THEN r = [data |-> Undefined, error |-> p.value]
       ELSE IF p.value = BareObject THEN r = [thrown |-> TypeErrorValue]
       ELSE /\ DOMAIN r = {"data", "error"} /\ r.data = Undefined
            /\ InstanceOfError(heap, r.error)
            /\ heap[r.error.id] =
                   ErrorObject(StringForm(p.value), Undefined, "Error", "try")
            /\ \A d \in Finished \ {c} :
                 ~InstanceOfError(heap, PromiseOf(d).value) => calls[d].ret # r

\* The heap with every error outside the chains of the errors in es blanked:
\* what a call on es sees when nothing else has happened.
Alone(es) ==
    LET kept == UNION {ChainOf(heap, e) : e \in es}
    IN [i \in DOMAIN heap |->
           IF Ref(i) \in kept THEN heap[i]
           ELSE ErrorObject("", Undefined, "Error", "none")]

\* C25: with several tryCatch calls in flight on different promises and
\* newError / wrap / cause / is / as called in between, every finished call has
\* the outcome its own promise's settlement determines, in whatever order the
\* promises settled, and every cause / is / as call returned what it returns
\* on its arguments' chains alone; newError and wrap returned a new error with
\* the message and cause given.
C25_CallsIndependent ==
    /\ \A c \in Finished : OwnSettlement(c)
    /\ last.op = "cause" => last.ret = cause(Alone({last.a}), last.a)
    /\ last.op = "is" =>
         last.ret = Bool(isError(Alone({last.a, last.b}), last.a, last.b))
    /\ last.op = "as" => last.ret = asError(Alone({last.a}), last.a, last.b.str)
    /\ last.op = "new" =>
         heap[last.ret.id] =
             Install(ErrorObject(last.a.str, Undefined, "Error", "new"), "newError")
    /\ last.op = "wrap" =>
         heap[last.ret.id] =
             Install(ErrorObject(last.b.str, last.a, "Error", "wrap"), "wrap")

\* C25 witness: two calls have finished in the reverse order of their start,
\* each with its own new error, an error made by newError in between, and a
\* chain query is returning.
C25_Witness ==
    /\ Len(calls) = 2 /\ Finished = {1, 2}
    /\ PromiseOf(1) = [state |-> "rejected", value |-> Str("plain string")]
    /\ PromiseOf(2) = [state |-> "rejected", value |-> Num(0)]
    /\ calls[2].ret.error = Ref(1)
    /\ heap[2].origin = "new"
    /\ calls[1].ret.error = Ref(3)
    /\ last.op = "is" /\ last.a = Ref(3) /\ last.b = Ref(1)

\* ---------------------------------------------------------------- cycles
\* The value reached from v by following n cause links.
RECURSIVE Follow(_, _, _)
Follow(h, v, n) == IF n = 0 THEN v ELSE Follow(h, GetCause(h, v), n - 1)

\* The Error nodes of e's chain, cyclic or not.
Nodes(h, e) ==
    {x \in Refs(h) : \E n \in 0 .. Len(h) : Follow(h, e, n) = x
                        /\ \A k \in 0 .. n : InstanceOfError(h, Follow(h, e, k))}

\* e's chain contains a cycle: it has more links than there are errors.
Cyclic(h, e) == \A n \in 0 .. Len(h) : InstanceOfError(h, Follow(h, e, n))

\* The traversal w, started on a cyclic chain, has nothing to stop at.
Endless(h, w) ==
    /\ Cyclic(h, w.a)
    /\ \/ w.op \in {"cause", "toString"}
       \/ w.op = "is" /\ w.b \notin Nodes(h, w.a)
       \/ w.op = "as" /\ \A x \in Nodes(h, w.a) : ~InstanceOf(h, x, w.b.str)

\* C26: there is no cycle detection. On a chain that a caller has made cyclic,
\* cause(e) and e.toString() never return, is(e, target) never returns when
\* target is no node of the chain, and as(e, Kind) never returns when no node
\* is an instance of Kind: the loop is still running after any number of
\* iterations.
C26_NoReturnOnCycle ==
    ("pc" \in DOMAIN last /\ Endless(heap, last)) => last.pc = "loop"

C26_Witness ==
    /\ Running
    /\ last.op = "as"
    /\ Endless(heap, last)
    /\ Cardinality(Nodes(heap, last.a)) = 2
    /\ last.steps = MaxSteps

\* What the traversal w returns according to the recursive definitions.
Expected(h, w) ==
    CASE w.op = "cause" -> cause(h, w.a)
      [] w.op = "is" -> Bool(isError(h, w.a, w.b))
      [] w.op = "as" -> asError(h, w.a, w.b.str)
      [] w.op = "toString" -> Str(toString(h, w.a))
      [] w.op = "toJSON" -> createErrorToJSON(h, w.a)

\* C27: with errors made by newError and wrap over cause-less errors, every
\* cause link leads from a newer error to an older one, so no error is
\* reachable from its own cause and every chain is finite; cause, is, as,
\* toString and toJSON visit at most one node more than the chain has links
\* and then return, with the value of the recursive definition.
C27_ChainsAcyclicTraversalsBounded ==
    /\ \A i \in DOMAIN heap :
          InstanceOfError(heap, heap[i].cause) => heap[i].cause.id < i
    /\ \A e \in Refs(heap) :
          /\ ~Cyclic(heap, e)
          /\ \A x \in Nodes(heap, e) \ {e} : e \notin Nodes(heap, x)
          /\ Cardinality(Nodes(heap, e)) = Depth(heap, e) + 1
    /\ Running => /\ last.steps <= Depth(heap, last.a)
                  /\ last.steps < MaxSteps
                  /\ last.cur \in Nodes(heap, last.a)
    /\ Returned => /\ last.steps <= Depth(heap, last.a) + 1
                   /\ last.ret = Expected(heap, last)

C27_Witness ==
    /\ Returned
    /\ last.op = "toString"
    /\ Depth(heap, last.a) = 2
    /\ last.steps = 3
    /\ last.ret = Str("a: a: b")

\* ---------------------------------------------------------------- algebra
\* C28: for every error e, cause(e) is an Error of e's chain (is(e, cause(e))
\* holds), its own cause is not an Error, and cause(cause(e)) is cause(e)
\* itself; and cause(wrap(e, m)) is cause(e) itself.
C28_CauseIsRootAndIdempotent ==
    /\ \A e \in Refs(heap) :
          LET r == cause(heap, e)
          IN /\ InstanceOfError(heap, r)
             /\ r \in ChainOf(heap, e)
             /\ isError(heap, e, r)
             /\ ~InstanceOfError(heap, GetCause(heap, r))
             /\ cause(heap, r) = r
    /\ (Returned /\ last.op = "cause") =>
          /\ last.ret = cause(heap, last.a)
          /\ cause(heap, last.ret) = last.ret
    /\ last.op = "wrap" => cause(heap, last.ret) = cause(heap, last.a)

C28_Witness ==
    /\ last.op = "wrap"
    /\ Depth(heap, last.ret) = 2
    /\ cause(heap, last.ret) = Ref(1)
    /\ cause(heap, last.a) = Ref(1)
    /\ heap[1].class = "CustomErrorOne"

\* C29: after w = wrap(a, m), is(w, t) holds iff t is w or is(a, t) holds, for
\* every t, and is(a, w) does not hold; is is transitive; two wrappers of the
\* same error are not in each other's chain and both contain that error.
C29_WrapExtendsMembership ==
    /\ last.op = "wrap" =>
          LET w == last.ret
              a == last.a
          IN /\ \A t \in Refs(heap) \cup {Null, Undefined} :
                   isError(heap, w, t) <=> (t = w \/ isError(heap, a, t))
             /\ ~isError(heap, a, w)
    /\ \A a \in Refs(heap), b \in Refs(heap), c \in Refs(heap) :
          (isError(heap, a, b) /\ isError(heap, b, c)) => isError(heap, a, c)
    /\ \A v \in Refs(heap), w \in Refs(heap) :
          (v # w /\ heap[v.id].origin = "wrap" /\ heap[w.id].origin = "wrap"
               /\ heap[v.id].cause = heap[w.id].cause) =>
              /\ ~isError(heap, v, w)
              /\ ~isError(heap, w, v)
              /\ isError(heap, v, heap[v.id].cause)
              /\ isError(heap, w, heap[v.id].cause)

C29_Witness ==
    /\ last.op = "wrap"
    /\ \E v \in Refs(heap) \ {last.ret} :
          /\ heap[v.id].origin = "wrap"
          /\ heap[v.id].cause = last.a
          /\ heap[v.id].message = heap[last.ret.id].message
          /\ ~isError(heap, v, last.ret)

\* ---------------------------------------------------------------- resolution
\* C30: the promise tryCatch returns never rejects, and it resolves only after
\* the promise it was given has settled, with the Result matching that
\* settlement: the value as data when fulfilled, an Error as error when
\* rejected.
C30_ResolvesAfterSettlementNeverRejects ==
    \A c \in DOMAIN calls :
        /\ calls[c].pc # "rejected"
        /\ calls[c].pc = "resolved" =>
             /\ PromiseOf(c).state # "pending"
             /\ PromiseOf(c).state = "fulfilled" =>
                  calls[c].ret = [data |-> PromiseOf(c).value, error |-> Undefined]
             /\ PromiseOf(c).state = "rejected" =>
                  /\ calls[c].ret.data = Undefined
                  /\ InstanceOfError(heap, calls[c].ret.error)

====
